---- MODULE Spec2Model ----
(***************************************************************************)
(* The create_session tool of appium-mcp: capability resolution and the    *)
(* session-creation orchestrator.                                          *)
(*                                                                         *)
(*   src/src/tools/session/create-session.ts   the tool (local and remote) *)
(*   src/unnamed/part_000                      the tool without the remote *)
(*                                             target (names end Legacy)   *)
(*                                                                         *)
(* A capability object is a function from key strings to value strings.    *)
(* The values true, 4 and 20000 of the simulator capabilities are written  *)
(* "true", "4" and "20000": the only test the code makes on a value is     *)
(* `=== ''`, which none of them passes.  undefined / null is Undefined.    *)
(***************************************************************************)
EXTENDS Integers, Sequences, FiniteSets, TLC

\* At most MaxDevices iOS devices of one type are listed by the device manager.
MaxDevices == 3

Undefined == "<undefined>"

\* JavaScript truthiness of a string-or-undefined value.
Truthy(v) == v # Undefined /\ v # ""

\* String.prototype.trim, on the strings of the model: the blank ones trim to ''.
Trim(s) == IF s \in {"", " ", "  "} THEN "" ELSE s

EmptyCaps == [k \in {} |-> ""]

\* Object spread {...a, ...b}: the later object overwrites on key collision.
Spread(a, b) ==
  [k \in DOMAIN a \cup DOMAIN b |-> IF k \in DOMAIN b THEN b[k] ELSE a[k]]

\* ...(cond && {obj}): spreading a falsy value adds nothing.
SpreadIf(cond, obj) == IF cond THEN obj ELSE EmptyCaps

SimulatorCaps ==
  [k \in {"appium:usePrebuiltWDA", "appium:wdaStartupRetries",
          "appium:wdaStartupRetryInterval"} |->
     CASE k = "appium:usePrebuiltWDA" -> "true"
       [] k = "appium:wdaStartupRetries" -> "4"
       [] OTHER -> "20000"]

\* ---------------------------------------------------------------- inputs

Platforms == {"android", "ios"}

\* Keys a config file or a tool call sets in the model.
InputKeys ==
  {"platformName", "appium:automationName", "appium:deviceName",
   "appium:platformVersion", "appium:udid", "appium:usePrebuiltWDA",
   "appium:app"}

OneEntry(vals) == {[k \in {key} |-> v] : key \in InputKeys, v \in vals}

\* Capability maps of the config file, and of the tool call.
ConfigMaps == {EmptyCaps} \cup OneEntry({"", "cfg"})
CustomMaps == {EmptyCaps} \cup OneEntry({"", "usr"})

RemoteUrls == {Undefined, "not a url", "http://localhost:4723"}

Args ==
  {[platform |-> p, hasCapabilities |-> TRUE, capabilities |-> c,
    remoteServerUrl |-> u] :
     p \in Platforms, c \in CustomMaps, u \in RemoteUrls}
  \cup
  {[platform |-> p, hasCapabilities |-> FALSE, capabilities |-> EmptyCaps,
    remoteServerUrl |-> u] : p \in Platforms, u \in RemoteUrls}

NoArgs ==
  [platform |-> Undefined, hasCapabilities |-> FALSE,
   capabilities |-> EmptyCaps, remoteServerUrl |-> Undefined]

\* Device-selection state of select-device.js.
NoInfo == [defined |-> FALSE, name |-> Undefined, platform |-> Undefined]

Info(name, platform) == [defined |-> TRUE, name |-> name, platform |-> platform]
Selection(u, t, i) == [udid |-> u, type |-> t, info |-> i]

\* What the select_device tool leaves behind: nothing, a device type alone,
\* a device with its type and info, and the blank and partial cases.
DeviceSelections ==
  {Selection(Undefined, Undefined, NoInfo),
   Selection(Undefined, "simulator", NoInfo),
   Selection(Undefined, "real", NoInfo),
   Selection("", "simulator", Info("", "")),
   Selection(Undefined, Undefined, Info("iPhone 15", "17.0")),
   Selection("udid-1", Undefined, NoInfo),
   Selection("udid-1", "simulator", NoInfo),
   Selection("udid-1", "simulator", Info("iPhone 15", "17.0")),
   Selection("udid-1", "simulator", Info(Undefined, " ")),
   Selection("udid-1", "real", Info("iPhone 15", "17.0")),
   Selection("udid-1", "real", Info("", "17.0"))}

\* Session store of session-store.js.
NoSession == [active |-> FALSE, id |-> Undefined]
NoHandle == [handle |-> Undefined, id |-> Undefined]
SessionIds == {"session-1", "session-2"}

\* Errors: what was thrown.  count is the device count of a MultipleIOS error.
NoError == [kind |-> "none", noun |-> "", count |-> 0]
Err(kind) == [kind |-> kind, noun |-> "", count |-> 0]

NoResult == [status |-> "none", prefix |-> "", cause |-> NoError]

\* ------------------------------------------------------ the config file

\* What CAPABILITIES_CONFIG names: envSet (the variable is set), exists
\* (access succeeds), readable (readFile succeeds), json (what JSON.parse
\* makes of the content: "invalid" throws, "null" is null, "object" is an
\* object with the android / ios members it has).
FileBase ==
  [envSet |-> TRUE, exists |-> TRUE, readable |-> TRUE, json |-> "object",
   hasAndroid |-> FALSE, android |-> EmptyCaps,
   hasIos |-> FALSE, ios |-> EmptyCaps]

OtherPlatformMaps == {EmptyCaps, [k \in {"appium:app"} |-> "other"]}

ConfigFiles ==
  {[FileBase EXCEPT !.envSet = FALSE], [FileBase EXCEPT !.exists = FALSE],
   [FileBase EXCEPT !.readable = FALSE], [FileBase EXCEPT !.json = "invalid"],
   [FileBase EXCEPT !.json = "null"], FileBase}
  \cup {[FileBase EXCEPT !.hasAndroid = TRUE, !.android = m] : m \in ConfigMaps}
  \cup {[FileBase EXCEPT !.hasIos = TRUE, !.ios = m] : m \in ConfigMaps}
  \cup {[FileBase EXCEPT !.hasAndroid = TRUE, !.android = m,
                         !.hasIos = TRUE, !.ios = o] :
          m \in ConfigMaps, o \in OtherPlatformMaps}
  \cup {[FileBase EXCEPT !.hasAndroid = TRUE, !.android = o,
                         !.hasIos = TRUE, !.ios = m] :
          m \in ConfigMaps, o \in OtherPlatformMaps}

ConfigKind(f) ==
  CASE ~f.envSet -> "unset"
    [] ~f.exists -> "missing"
    [] ~f.readable -> "unreadable"
    [] f.json = "invalid" -> "unparseable"
    [] f.json = "null" -> "null"
    [] ~f.hasAndroid /\ ~f.hasIos -> "no mappings"
    [] OTHER -> "object"

\* The value { android: {}, ios: {} }.
EmptyConfig ==
  [isNull |-> FALSE, hasAndroid |-> TRUE, android |-> EmptyCaps,
   hasIos |-> TRUE, ios |-> EmptyCaps]

\* loadCapabilitiesConfig: the empty config when the variable is unset or
\* access / readFile / JSON.parse throws, and else whatever JSON.parse returns.
loadCapabilitiesConfig(f) ==
  IF ~f.envSet THEN EmptyConfig
  ELSE IF ~f.exists \/ ~f.readable \/ f.json = "invalid" THEN EmptyConfig
  ELSE [isNull |-> f.json = "null",
        hasAndroid |-> f.json = "object" /\ f.hasAndroid,
        android |-> IF f.json = "object" /\ f.hasAndroid THEN f.android ELSE EmptyCaps,
        hasIos |-> f.json = "object" /\ f.hasIos,
        ios |-> IF f.json = "object" /\ f.hasIos THEN f.ios ELSE EmptyCaps]

NoPlatformCaps == [defined |-> FALSE, caps |-> EmptyCaps]

\* platform === 'android' ? configCapabilities.android : configCapabilities.ios
\* (a member the object lacks reads as undefined).
SelectPlatformCaps(config, platform) ==
  IF platform = "android"
  THEN [defined |-> config.hasAndroid, caps |-> config.android]
  ELSE [defined |-> config.hasIos, caps |-> config.ios]

\* Reading a member of null throws a TypeError.
MemberReadThrows(config) == config.isNull

\* ------------------------------------------------------------- variables

VARIABLES
  session,             \* session-store.js: the active session, or NoSession
  selectedDevice,      \* select-device.js: the selected device's udid
  selectedDeviceType,  \* select-device.js: simulator | real | undefined
  selectedDeviceInfo,  \* select-device.js: { name, platform } | undefined
  pc,                  \* where execute is: IDLE, a step of 4.4, DONE, FAILED
  args,                \* execute's args
  configKind,          \* what reading the config file came to
  platformCaps,        \* execute's platformCaps
  deviceType,          \* buildIOSCapabilities' deviceType
  devices,             \* validateIOSDeviceSelection's devices.length, -1: not listed
  finalCapabilities,   \* execute's finalCapabilities
  sessionId,           \* execute's sessionId
  registered,          \* the handle and id setSession was called with
  result,              \* what execute returned or threw
  failedAt,            \* the step whose error reached execute's catch
  events,              \* the collaborator calls of this invocation, in order
  atStart,             \* the device selection and the store when execute began
  teardownThrew        \* safeDeleteSession threw in this invocation

deviceVars == <<selectedDevice, selectedDeviceType, selectedDeviceInfo>>
vars ==
  <<session, selectedDevice, selectedDeviceType, selectedDeviceInfo, pc, args,
    configKind, platformCaps, deviceType, devices, finalCapabilities,
    sessionId, registered, result, failedAt, events, atStart, teardownThrew>>

NoStart ==
  [udid |-> Undefined, type |-> Undefined, info |-> NoInfo, session |-> NoSession]

Init ==
  /\ session = NoSession
  /\ selectedDevice = Undefined
  /\ selectedDeviceType = Undefined
  /\ selectedDeviceInfo = NoInfo
  /\ pc = "IDLE"
  /\ args = NoArgs
  /\ configKind = "none"
  /\ platformCaps = NoPlatformCaps
  /\ deviceType = Undefined
  /\ devices = -1
  /\ finalCapabilities = EmptyCaps
  /\ sessionId = Undefined
  /\ registered = NoHandle
  /\ result = NoResult
  /\ failedAt = "none"
  /\ events = <<>>
  /\ atStart = NoStart
  /\ teardownThrew = FALSE

\* ------------------------------------------------- capability resolution

\* filterEmptyCapabilities returning its argument as it is.
filterEmptyCapabilitiesKeepsAll(capabilities) == capabilities

\* filterEmptyCapabilities: delete every key whose value === ''.
filterEmptyCapabilities(capabilities) ==
  [k \in {x \in DOMAIN capabilities : capabilities[x] # ""} |-> capabilities[k]]

AndroidDefaultCaps ==
  [k \in {"platformName", "appium:automationName", "appium:deviceName"} |->
     CASE k = "platformName" -> "Android"
       [] k = "appium:automationName" -> "UiAutomator2"
       [] OTHER -> "Android Device"]

\* defaultCaps of buildIOSCapabilities: the device's name, when it has one.
IOSDefaultCaps(info) ==
  [k \in {"platformName", "appium:automationName", "appium:deviceName"} |->
     CASE k = "platformName" -> "iOS"
       [] k = "appium:automationName" -> "XCUITest"
       [] OTHER -> IF info.defined /\ Truthy(info.name)
                   THEN info.name ELSE "iPhone Simulator"]

\* selectedDeviceInfo?.platform && selectedDeviceInfo.platform.trim() !== ''
\*   ? selectedDeviceInfo.platform : undefined
PlatformVersion(info) ==
  IF info.defined /\ Truthy(info.platform) /\ Trim(info.platform) # ""
  THEN info.platform ELSE Undefined

Udid(v) == [k \in {"appium:udid"} |-> v]
Version(v) == [k \in {"appium:platformVersion"} |-> v]

\* buildAndroidCapabilities with ...customCaps spread before the selected udid.
buildAndroidCapabilitiesCustomEarly(configCaps, customCaps, isRemoteServer) ==
  LET selectedDeviceUdid == IF isRemoteServer THEN Undefined ELSE selectedDevice
      capabilities ==
        Spread(Spread(Spread(AndroidDefaultCaps, configCaps), customCaps),
               SpreadIf(Truthy(selectedDeviceUdid), Udid(selectedDeviceUdid)))
  IN  filterEmptyCapabilities(capabilities)

\* buildAndroidCapabilities, up to the merge; the caller clears the device.
buildAndroidCapabilities(configCaps, customCaps, isRemoteServer) ==
  LET selectedDeviceUdid == IF isRemoteServer THEN Undefined ELSE selectedDevice
      capabilities ==
        Spread(Spread(Spread(AndroidDefaultCaps, configCaps),
                      SpreadIf(Truthy(selectedDeviceUdid), Udid(selectedDeviceUdid))),
               customCaps)
  IN  filterEmptyCapabilities(capabilities)

\* validateIOSDeviceSelection with devices.length >= 1 for its test.
validateIOSDeviceSelectionFromOne(type, n) ==
  IF n >= 1 /\ ~Truthy(selectedDevice)
  THEN [kind |-> "MultipleIOS",
        noun |-> IF type = "simulator" THEN "simulators" ELSE "devices",
        count |-> n]
  ELSE NoError

\* validateIOSDeviceSelection after the device list came back with n devices:
\* the error it throws, or NoError.
validateIOSDeviceSelection(type, n) ==
  IF n > 1 /\ ~Truthy(selectedDevice)
  THEN [kind |-> "MultipleIOS",
        noun |-> IF type = "simulator" THEN "simulators" ELSE "devices",
        count |-> n]
  ELSE NoError

\* buildIOSCapabilities with ...configCaps spread after the selected udid.
buildIOSCapabilitiesConfigLate(configCaps, customCaps, isRemoteServer) ==
  LET selectedDeviceUdid == IF isRemoteServer THEN Undefined ELSE selectedDevice
      info == IF isRemoteServer THEN NoInfo ELSE selectedDeviceInfo
      platformVersion == PlatformVersion(info)
      capabilities ==
        Spread(Spread(Spread(Spread(Spread(IOSDefaultCaps(info),
          SpreadIf(Truthy(platformVersion), Version(platformVersion))),
          SpreadIf(Truthy(selectedDeviceUdid), Udid(selectedDeviceUdid))),
          configCaps),
          SpreadIf(deviceType = "simulator", SimulatorCaps)),
          customCaps)
  IN  filterEmptyCapabilities(capabilities)

\* buildIOSCapabilities reading the selected udid whatever isRemoteServer is.
buildIOSCapabilitiesReadsDevice(configCaps, customCaps, isRemoteServer) ==
  LET selectedDeviceUdid == selectedDevice
      info == IF isRemoteServer THEN NoInfo ELSE selectedDeviceInfo
      platformVersion == PlatformVersion(info)
      capabilities ==
        Spread(Spread(Spread(Spread(Spread(IOSDefaultCaps(info),
          SpreadIf(Truthy(platformVersion), Version(platformVersion))),
          configCaps),
          SpreadIf(Truthy(selectedDeviceUdid), Udid(selectedDeviceUdid))),
          SpreadIf(deviceType = "simulator", SimulatorCaps)),
          customCaps)
  IN  filterEmptyCapabilities(capabilities)

\* buildIOSCapabilities after validation, up to the merge.
buildIOSCapabilities(configCaps, customCaps, isRemoteServer) ==
  LET selectedDeviceUdid == IF isRemoteServer THEN Undefined ELSE selectedDevice
      info == IF isRemoteServer THEN NoInfo ELSE selectedDeviceInfo
      platformVersion == PlatformVersion(info)
      capabilities ==
        Spread(Spread(Spread(Spread(Spread(IOSDefaultCaps(info),
          SpreadIf(Truthy(platformVersion), Version(platformVersion))),
          configCaps),
          SpreadIf(Truthy(selectedDeviceUdid), Udid(selectedDeviceUdid))),
          SpreadIf(deviceType = "simulator", SimulatorCaps)),
          customCaps)
  IN  filterEmptyCapabilities(capabilities)

\* ------------------------------------------- collaborators of the tool

\* session-store.js
hasActiveSession == session.active

\* session-store.js: the store holds the new session, whatever it held;
\* registered is the handle it was given.
setSession(handle, id) ==
  /\ session' = [active |-> TRUE, id |-> id]
  /\ registered' = [handle |-> handle, id |-> id]

\* session-store.js: deletes the active session or throws; a throw may come
\* before or after the store dropped the session.
safeDeleteSession(threw) ==
  /\ teardownThrew' = threw
  /\ session' \in (IF threw THEN {session, NoSession} ELSE {NoSession})

\* select-device.js: clears the selected device identifier.
clearSelectedDevice ==
  /\ selectedDevice' = Undefined
  /\ UNCHANGED <<selectedDeviceType, selectedDeviceInfo>>

\* new URL(remoteServerUrl) throws on a string that is no URL.
ValidUrl(u) == u = "http://localhost:4723"

\* createDriverForPlatform: the driver, or UnsupportedPlatform when it throws.
createDriverForPlatform(platform) ==
  CASE platform = "android" -> "AndroidUiautomator2Driver"
    [] platform = "ios" -> "XCUITestDriver"
    [] OTHER -> "UnsupportedPlatform"

\* ------------------------------------------------------------- execute

\* !!remoteServerUrl
isRemote == Truthy(args.remoteServerUrl)

\* catch (error) { throw new Error(`Failed to create session: ${error.message}`) }
Catch(stage, error) ==
  /\ pc' = "FAILED"
  /\ failedAt' = stage
  /\ result' = [status |-> "error", prefix |-> "Failed to create session: ",
                cause |-> error]

Proceed(next) ==
  /\ pc' = next
  /\ UNCHANGED <<failedAt, result>>

\* execute without the teardown of the prior session.
StartSkipsTeardown(a) ==
  /\ pc = "IDLE"
  /\ args' = a
  /\ atStart' = [udid |-> selectedDevice, type |-> selectedDeviceType,
                 info |-> selectedDeviceInfo, session |-> session]
  /\ events' = <<>>
  /\ Proceed("LOAD_CONFIG")
  /\ UNCHANGED <<session, deviceVars, configKind, platformCaps, deviceType,
                 devices, finalCapabilities, sessionId, registered, teardownThrew>>

\* execute is called: hasActiveSession() decides whether a teardown comes first.
StartWith(a) ==
  /\ pc = "IDLE"
  /\ args' = a
  /\ atStart' = [udid |-> selectedDevice, type |-> selectedDeviceType,
                 info |-> selectedDeviceInfo, session |-> session]
  /\ events' = <<>>
  /\ Proceed(IF hasActiveSession THEN "TEARDOWN_PRIOR" ELSE "LOAD_CONFIG")
  /\ UNCHANGED <<session, deviceVars, configKind, platformCaps, deviceType,
                 devices, finalCapabilities, sessionId, registered, teardownThrew>>

Start == \E a \in Args : StartWith(a)

\* execute going on to the config without calling safeDeleteSession.
TeardownPriorSkipped ==
  /\ pc = "TEARDOWN_PRIOR"
  /\ Proceed("LOAD_CONFIG")
  /\ UNCHANGED <<session, deviceVars, args, configKind, platformCaps, deviceType,
                 devices, finalCapabilities, sessionId, registered, events,
                 atStart, teardownThrew>>

\* try { await safeDeleteSession() } catch { /* ok to ignore */ }
TeardownPrior ==
  /\ pc = "TEARDOWN_PRIOR"
  /\ \E threw \in BOOLEAN : safeDeleteSession(threw)
  /\ events' = Append(events, "safeDeleteSession")
  /\ Proceed("LOAD_CONFIG")
  /\ UNCHANGED <<deviceVars, args, configKind, platformCaps, deviceType,
                 devices, finalCapabilities, sessionId, registered, atStart>>

\* const configCapabilities = await loadCapabilitiesConfig();
\* const platformCaps = platform === 'android' ? ... .android : ... .ios
LoadConfig ==
  /\ pc = "LOAD_CONFIG"
  /\ \E f \in ConfigFiles :
       LET configCapabilities == loadCapabilitiesConfig(f) IN
       /\ configKind' = ConfigKind(f)
       /\ IF MemberReadThrows(configCapabilities)
          THEN /\ Catch("LOAD_CONFIG", Err("TypeError"))
               /\ UNCHANGED platformCaps
          ELSE /\ platformCaps' = SelectPlatformCaps(configCapabilities, args.platform)
               /\ Proceed("BUILD_CAPS")
  /\ events' = Append(events, "loadCapabilitiesConfig")
  /\ UNCHANGED <<session, deviceVars, args, deviceType, devices,
                 finalCapabilities, sessionId, registered, atStart, teardownThrew>>

\* The clearing, made on a remote target too.
ClearIgnoringRemote(remote, reads) ==
  IF Truthy(selectedDevice)
  THEN /\ clearSelectedDevice
       /\ events' = events \o reads \o <<"clearSelectedDevice">>
  ELSE /\ UNCHANGED deviceVars
       /\ events' = events \o (IF remote THEN <<>> ELSE reads)

\* What the two builders do after the merge: if (selectedDeviceUdid)
\* clearSelectedDevice().  reads: the device-selection reads made before it.
ClearIfSelected(remote, reads) ==
  IF ~remote /\ Truthy(selectedDevice)
  THEN /\ clearSelectedDevice
       /\ events' = events \o reads \o <<"clearSelectedDevice">>
  ELSE /\ UNCHANGED deviceVars
       /\ events' = events \o (IF remote THEN <<>> ELSE reads)

\* platform === 'android': buildAndroidCapabilities(platformCaps, customCapabilities, !!remoteServerUrl)
BuildAndroid ==
  /\ pc = "BUILD_CAPS"
  /\ args.platform = "android"
  /\ finalCapabilities' =
       buildAndroidCapabilities(platformCaps.caps, args.capabilities, isRemote)
  /\ ClearIfSelected(isRemote, <<"getSelectedDevice">>)
  /\ Proceed("DISPATCH")
  /\ UNCHANGED <<session, args, configKind, platformCaps, deviceType, devices,
                 sessionId, registered, atStart, teardownThrew>>

\* buildIOSCapabilities, to the end of await validateIOSDeviceSelection(deviceType)
ValidateIOS ==
  /\ pc = "BUILD_CAPS"
  /\ args.platform # "android"
  /\ LET type == IF isRemote THEN Undefined ELSE selectedDeviceType
         read == IF isRemote THEN <<>> ELSE <<"getSelectedDeviceType">>
     IN
     /\ deviceType' = type
     /\ IF ~Truthy(type)
        THEN /\ devices' = -1
             /\ events' = events \o read
             /\ Proceed("BUILD_IOS")
        ELSE \/ \E n \in 0..MaxDevices :
                  /\ devices' = n
                  /\ events' = events \o read \o <<"getDevicesByType">>
                                 \o (IF n > 1 THEN <<"getSelectedDevice">> ELSE <<>>)
                  /\ IF validateIOSDeviceSelection(type, n) # NoError
                     THEN Catch("BUILD_CAPS", validateIOSDeviceSelection(type, n))
                     ELSE Proceed("BUILD_IOS")
             \/ /\ devices' = -1
                /\ events' = events \o read \o <<"getDevicesByType">>
                /\ Catch("BUILD_CAPS", Err("DeviceManagerError"))
  /\ UNCHANGED <<session, deviceVars, args, configKind, platformCaps,
                 finalCapabilities, sessionId, registered, atStart, teardownThrew>>

\* buildIOSCapabilities, from the reads after validation to its return
BuildIOS ==
  /\ pc = "BUILD_IOS"
  /\ finalCapabilities' =
       buildIOSCapabilities(platformCaps.caps, args.capabilities, isRemote)
  /\ ClearIfSelected(isRemote, <<"getSelectedDevice", "getSelectedDeviceInfo">>)
  /\ Proceed("DISPATCH")
  /\ UNCHANGED <<session, args, configKind, platformCaps, deviceType, devices,
                 sessionId, registered, atStart, teardownThrew>>

\* if (remoteServerUrl) { new URL(..); WebDriver.newSession(..) }
\* else { createDriverForPlatform(platform); driver.createSession(..) }
Dispatch ==
  /\ pc = "DISPATCH"
  /\ IF isRemote
     THEN IF ValidUrl(args.remoteServerUrl)
          THEN events' = Append(events, "newSession") /\ Proceed("AWAIT_SESSION")
          ELSE UNCHANGED events /\ Catch("DISPATCH", Err("InvalidURL"))
     ELSE IF createDriverForPlatform(args.platform) # "UnsupportedPlatform"
          THEN events' = Append(events, "createSession") /\ Proceed("AWAIT_SESSION")
          ELSE UNCHANGED events /\ Catch("DISPATCH", Err("UnsupportedPlatform"))
  /\ UNCHANGED <<session, deviceVars, args, configKind, platformCaps, deviceType,
                 devices, finalCapabilities, sessionId, registered, atStart, teardownThrew>>

\* The embedded driver registered on both paths.
HandleDriverOnly == createDriverForPlatform(args.platform)

\* The handle execute registers: the client of the remote path, the driver
\* of the local one.
Handle == IF isRemote THEN "WebDriverClient" ELSE createDriverForPlatform(args.platform)

\* The awaited newSession / createSession returns a new session id, and
\* setSession registers it, or throws.
DispatchReturn ==
  /\ pc = "AWAIT_SESSION"
  /\ \/ \E id \in SessionIds \ {session.id} :
          /\ sessionId' = id
          /\ setSession(Handle, id)
          /\ events' = Append(events, "setSession")
          /\ Proceed("RESPOND")
     \/ /\ Catch("DISPATCH", Err(IF isRemote THEN "RemoteSessionError" ELSE "DriverError"))
        /\ UNCHANGED <<session, sessionId, registered, events>>
  /\ UNCHANGED <<deviceVars, args, configKind, platformCaps, deviceType, devices,
                 finalCapabilities, atStart, teardownThrew>>

\* The text summary and the dashboard resource; a helper that throws lands
\* in the catch like any other error.
Respond ==
  /\ pc = "RESPOND"
  /\ \/ /\ result' = [status |-> "ok", prefix |-> "", cause |-> NoError]
        /\ pc' = "DONE"
        /\ UNCHANGED failedAt
     \/ Catch("RESPOND", Err("UIResourceError"))
  /\ UNCHANGED <<session, deviceVars, args, configKind, platformCaps, deviceType,
                 devices, finalCapabilities, sessionId, registered, events, atStart,
                 teardownThrew>>

\* execute has returned or thrown: its locals are gone.
Return ==
  /\ pc \in {"DONE", "FAILED"}
  /\ pc' = "IDLE"
  /\ args' = NoArgs
  /\ configKind' = "none"
  /\ platformCaps' = NoPlatformCaps
  /\ deviceType' = Undefined
  /\ devices' = -1
  /\ finalCapabilities' = EmptyCaps
  /\ sessionId' = Undefined
  /\ registered' = NoHandle
  /\ result' = NoResult
  /\ failedAt' = "none"
  /\ events' = <<>>
  /\ atStart' = NoStart
  /\ teardownThrew' = FALSE
  /\ UNCHANGED <<session, deviceVars>>

\* The select_device tool, between two invocations.
SelectDevice ==
  /\ pc = "IDLE"
  /\ \E d \in DeviceSelections :
       /\ selectedDevice' = d.udid
       /\ selectedDeviceType' = d.type
       /\ selectedDeviceInfo' = d.info
  /\ UNCHANGED <<session, pc, args, configKind, platformCaps, deviceType,
                 devices, finalCapabilities, sessionId, registered, result, failedAt,
                 events, atStart, teardownThrew>>

Next ==
  \/ Start
  \/ TeardownPrior
  \/ LoadConfig
  \/ BuildAndroid
  \/ ValidateIOS
  \/ BuildIOS
  \/ Dispatch
  \/ DispatchReturn
  \/ Respond
  \/ Return
  \/ SelectDevice

Spec == Init /\ [][Next]_vars

\* --------------------------------- the tool without the remote target

ArgsLegacy == {a \in Args : a.remoteServerUrl = Undefined}

IOSDefaultCapsLegacy ==
  [k \in {"platformName", "appium:automationName", "appium:deviceName"} |->
     CASE k = "platformName" -> "iOS"
       [] k = "appium:automationName" -> "XCUITest"
       [] OTHER -> "iPhone Simulator"]

buildAndroidCapabilitiesLegacy(configCaps, customCaps) ==
  LET selectedDeviceUdid == selectedDevice
      capabilities ==
        Spread(Spread(Spread(AndroidDefaultCaps, configCaps),
                      SpreadIf(Truthy(selectedDeviceUdid), Udid(selectedDeviceUdid))),
               customCaps)
  IN  filterEmptyCapabilities(capabilities)

buildIOSCapabilitiesLegacy(configCaps, customCaps) ==
  LET selectedDeviceUdid == selectedDevice
      platformVersion == PlatformVersion(selectedDeviceInfo)
      capabilities ==
        Spread(Spread(Spread(Spread(Spread(IOSDefaultCapsLegacy,
          SpreadIf(Truthy(platformVersion), Version(platformVersion))),
          configCaps),
          SpreadIf(Truthy(selectedDeviceUdid), Udid(selectedDeviceUdid))),
          SpreadIf(deviceType = "simulator", SimulatorCaps)),
          customCaps)
  IN  filterEmptyCapabilities(capabilities)

StartLegacy == \E a \in ArgsLegacy : StartWith(a)

\* await safeDeleteSession(), inside execute's try: a throw reaches the catch.
TeardownPriorLegacy ==
  /\ pc = "TEARDOWN_PRIOR"
  /\ \E threw \in BOOLEAN :
       /\ safeDeleteSession(threw)
       /\ IF threw
          THEN Catch("TEARDOWN_PRIOR", Err("TeardownError"))
          ELSE Proceed("LOAD_CONFIG")
  /\ events' = Append(events, "safeDeleteSession")
  /\ UNCHANGED <<deviceVars, args, configKind, platformCaps, deviceType,
                 devices, finalCapabilities, sessionId, registered, atStart>>

BuildAndroidLegacy ==
  /\ pc = "BUILD_CAPS"
  /\ args.platform = "android"
  /\ finalCapabilities' =
       buildAndroidCapabilitiesLegacy(platformCaps.caps, args.capabilities)
  /\ ClearIfSelected(FALSE, <<"getSelectedDevice">>)
  /\ Proceed("DISPATCH")
  /\ UNCHANGED <<session, args, configKind, platformCaps, deviceType, devices,
                 sessionId, registered, atStart, teardownThrew>>

ValidateIOSLegacy ==
  /\ pc = "BUILD_CAPS"
  /\ args.platform # "android"
  /\ deviceType' = selectedDeviceType
  /\ IF ~Truthy(selectedDeviceType)
     THEN /\ devices' = -1
          /\ events' = Append(events, "getSelectedDeviceType")
          /\ Proceed("BUILD_IOS")
     ELSE \/ \E n \in 0..MaxDevices :
               /\ devices' = n
               /\ events' = events \o <<"getSelectedDeviceType", "getDevicesByType">>
                              \o (IF n > 1 THEN <<"getSelectedDevice">> ELSE <<>>)
               /\ IF validateIOSDeviceSelection(selectedDeviceType, n) # NoError
                  THEN Catch("BUILD_CAPS", validateIOSDeviceSelection(selectedDeviceType, n))
                  ELSE Proceed("BUILD_IOS")
          \/ /\ devices' = -1
             /\ events' = events \o <<"getSelectedDeviceType", "getDevicesByType">>
             /\ Catch("BUILD_CAPS", Err("DeviceManagerError"))
  /\ UNCHANGED <<session, deviceVars, args, configKind, platformCaps,
                 finalCapabilities, sessionId, registered, atStart, teardownThrew>>

BuildIOSLegacy ==
  /\ pc = "BUILD_IOS"
  /\ finalCapabilities' =
       buildIOSCapabilitiesLegacy(platformCaps.caps, args.capabilities)
  /\ ClearIfSelected(FALSE, <<"getSelectedDevice", "getSelectedDeviceInfo">>)
  /\ Proceed("DISPATCH")
  /\ UNCHANGED <<session, args, configKind, platformCaps, deviceType, devices,
                 sessionId, registered, atStart, teardownThrew>>

\* createDriverForPlatform(platform); createDriverSession(driver, finalCapabilities)
DispatchLegacy ==
  /\ pc = "DISPATCH"
  /\ IF createDriverForPlatform(args.platform) # "UnsupportedPlatform"
     THEN events' = Append(events, "createSession") /\ Proceed("AWAIT_SESSION")
     ELSE UNCHANGED events /\ Catch("DISPATCH", Err("UnsupportedPlatform"))
  /\ UNCHANGED <<session, deviceVars, args, configKind, platformCaps, deviceType,
                 devices, finalCapabilities, sessionId, registered, atStart,
                 teardownThrew>>

\* return { content: [ { type: 'text', text: ... } ] }
RespondLegacy ==
  /\ pc = "RESPOND"
  /\ result' = [status |-> "ok", prefix |-> "", cause |-> NoError]
  /\ pc' = "DONE"
  /\ UNCHANGED <<session, deviceVars, args, configKind, platformCaps, deviceType,
                 devices, finalCapabilities, sessionId, registered, failedAt,
                 events, atStart, teardownThrew>>

NextLegacy ==
  \/ StartLegacy
  \/ TeardownPriorLegacy
  \/ LoadConfig
  \/ BuildAndroidLegacy
  \/ ValidateIOSLegacy
  \/ BuildIOSLegacy
  \/ DispatchLegacy
  \/ DispatchReturn
  \/ RespondLegacy
  \/ Return
  \/ SelectDevice

SpecLegacy == Init /\ [][NextLegacy]_vars

\* ------------------------------------------------ vocabulary of the claims

Has(e) == \E i \in DOMAIN events : events[i] = e
Count(e) == Cardinality({i \in DOMAIN events : events[i] = e})

\* The capability build of this invocation has returned.
Built ==
  \/ pc \in {"DISPATCH", "AWAIT_SESSION", "RESPOND", "DONE"}
  \/ pc = "FAILED" /\ failedAt \in {"DISPATCH", "RESPOND"}

Custom == args.capabilities
\* finalCapabilities[k], as JavaScript reads it: undefined for a missing key.
Cap(k) == IF k \in DOMAIN finalCapabilities THEN finalCapabilities[k] ELSE Undefined
Config == platformCaps.caps
Selected(v) == v \notin {Undefined, ""}
StabilityKeys ==
  {"appium:usePrebuiltWDA", "appium:wdaStartupRetries", "appium:wdaStartupRetryInterval"}

\* The fixed platform defaults of the spec's 4.1.
Defaults(platform) ==
  IF platform = "android"
  THEN ("platformName" :> "Android") @@ ("appium:automationName" :> "UiAutomator2")
  ELSE ("platformName" :> "iOS") @@ ("appium:automationName" :> "XCUITest")

\* The six layers of 4.1, lowest priority first, from the inputs of the
\* invocation: the platform, the config and custom maps, the remote flag and
\* the device selection as it was when the invocation began.
Layers ==
  LET ios == args.platform = "ios"
      local == ~Selected(args.remoteServerUrl)
      info == atStart.info
      name == IF local /\ info.defined /\ Selected(info.name)
              THEN info.name ELSE "iPhone Simulator"
  IN  << IF ios THEN Defaults("ios") @@ ("appium:deviceName" :> name)
               ELSE Defaults("android") @@ ("appium:deviceName" :> "Android Device"),
         IF ios /\ local /\ info.defined /\ info.platform \notin {Undefined, "", " ", "  "}
           THEN "appium:platformVersion" :> info.platform ELSE EmptyCaps,
         Config,
         IF local /\ Selected(atStart.udid)
           THEN "appium:udid" :> atStart.udid ELSE EmptyCaps,
         IF ios /\ local /\ atStart.type = "simulator"
           THEN ("appium:usePrebuiltWDA" :> "true") @@ ("appium:wdaStartupRetries" :> "4")
                @@ ("appium:wdaStartupRetryInterval" :> "20000")
           ELSE EmptyCaps,
         Custom >>

\* The value of key k in the highest of the layers L that has it.
Top(L, k) ==
  LET has == {i \in 1..6 : k \in DOMAIN L[i]}
      top == CHOOSE i \in has : \A j \in has : j <= i
  IN  L[top][k]

\* The build has just returned: execute holds its result and has not yet
\* dispatched.
BuildReturned == pc = "DISPATCH"

\* C1: the capability set a build returns is the left-to-right overwrite of
\* the six layers with the empty-string entries removed: a key is in it
\* exactly when the highest layer holding the key gives it a non-empty value,
\* and then with that value; android with no config, no custom capabilities
\* and no device selected gives exactly the three android defaults.
C1_MergePrecedence ==
  BuildReturned =>
    LET L == Layers
        keys == UNION {DOMAIN L[i] : i \in 1..6}
    IN  /\ DOMAIN finalCapabilities = {k \in keys : Top(L, k) # ""}
        /\ \A k \in DOMAIN finalCapabilities : finalCapabilities[k] = Top(L, k)
        /\ (args.platform = "android" /\ Config = EmptyCaps /\ Custom = EmptyCaps
            /\ atStart.udid = Undefined)
           => finalCapabilities =
                ("platformName" :> "Android")
                @@ ("appium:automationName" :> "UiAutomator2")
                @@ ("appium:deviceName" :> "Android Device")

\* C1 witness: an iOS simulator build where the selected udid overwrote the
\* config file's and a custom capability overwrote a simulator one.
C1_Witness ==
  /\ pc = "DISPATCH"
  /\ args.platform = "ios"
  /\ atStart.udid = "udid-1"
  /\ atStart.type = "simulator"
  /\ "appium:udid" \in DOMAIN Config
  /\ "appium:usePrebuiltWDA" \in DOMAIN Custom
  /\ Cap("appium:udid") = "udid-1"
  /\ Cap("appium:usePrebuiltWDA") = "usr"
  /\ Cap("appium:wdaStartupRetries") = "4"

NameKeys == {"platformName", "appium:automationName"}

NoEmptyValue(caps) == \A k \in DOMAIN caps : caps[k] # ""

\* C2 as stated: platformName and appium:automationName are the platform
\* defaults unless the custom capabilities override them, and a custom
\* capability wins over every other source.  Stated on the inputs that hold
\* no empty-string capability, so that the removal of empty entries plays
\* no part in it.
C2_DefaultsUnlessCustom ==
  (BuildReturned /\ NoEmptyValue(Config) /\ NoEmptyValue(Custom)) =>
    \A k \in NameKeys :
      IF k \in DOMAIN Custom
      THEN Custom[k] # "" => Cap(k) = Custom[k]
      ELSE Cap(k) = Defaults(args.platform)[k]

\* C2 amended: platformName and appium:automationName are the platform
\* defaults unless the config-file or the custom capabilities set them; a
\* custom capability wins over every other source, an empty-string one by
\* removing the key.
C2_DefaultsUnlessSet ==
  BuildReturned =>
    /\ \A k \in NameKeys :
         (k \notin DOMAIN Custom /\ k \notin DOMAIN Config)
           => Cap(k) = Defaults(args.platform)[k]
    /\ \A k \in DOMAIN Custom :
         Cap(k) = IF Custom[k] = "" THEN Undefined ELSE Custom[k]

\* C2 witness: the config file and the tool call both set platformName, and
\* the tool call's value is the result's.
C2_Witness ==
  /\ BuildReturned
  /\ "platformName" \in DOMAIN Config
  /\ Config["platformName"] = "cfg"
  /\ "platformName" \in DOMAIN Custom
  /\ Cap("platformName") = "usr"

\* C3: after capability resolution the final capability set contains the
\* keys platformName and appium:automationName.
C3_NameKeysPresent ==
  BuildReturned => NameKeys \subseteq DOMAIN finalCapabilities

DeviceKeys == {"appium:udid"} \cup StabilityKeys

\* C4 as stated: on a remote target the final capability set contains
\* neither appium:udid nor a simulator-stability key.
C4_RemoteNeverDeviceKeys ==
  (BuildReturned /\ Selected(args.remoteServerUrl))
    => DeviceKeys \cap DOMAIN finalCapabilities = {}

\* C4 amended: on a remote target the device selection contributes nothing;
\* appium:udid or a simulator-stability key is in the final capability set
\* only when the custom or the config-file capabilities supply it, and then
\* with their value.
C4_RemoteIgnoresSelection ==
  (BuildReturned /\ Selected(args.remoteServerUrl))
    => \A k \in DeviceKeys \cap DOMAIN finalCapabilities :
         IF k \in DOMAIN Custom
         THEN finalCapabilities[k] = Custom[k]
         ELSE k \in DOMAIN Config /\ finalCapabilities[k] = Config[k]

\* C4 witness: an iOS build for a remote target while a simulator is
\* selected: the selection is neither used nor cleared.
C4_Witness ==
  /\ BuildReturned
  /\ Selected(args.remoteServerUrl)
  /\ args.platform = "ios"
  /\ atStart.udid = "udid-1"
  /\ atStart.type = "simulator"
  /\ selectedDevice = "udid-1"
  /\ DeviceKeys \cap DOMAIN finalCapabilities = {}

Local == ~Selected(args.remoteServerUrl)
SelectionNow == Selection(selectedDevice, selectedDeviceType, selectedDeviceInfo)
SelectionAtStart == Selection(atStart.udid, atStart.type, atStart.info)

\* C5: clearSelectedDevice is called exactly once in an invocation whose
\* build read a selected device identifier and injected it (a non-remote
\* target with a device selected), whatever the dispatch does afterwards; in
\* every other invocation it is never called and the device selection stays
\* as it was.
C5_ClearedExactlyOnce ==
  pc # "IDLE" =>
    LET consumed == Built /\ Local /\ Selected(atStart.udid) IN
    /\ Count("clearSelectedDevice") = (IF consumed THEN 1 ELSE 0)
    /\ consumed =>
         /\ selectedDevice = Undefined
         /\ "appium:udid" \in DOMAIN Custom \/ Cap("appium:udid") = atStart.udid
    /\ ~consumed => SelectionNow = SelectionAtStart

\* C5 witness: the dispatch failed after a build that consumed the selected
\* device, and the device was cleared once.
C5_Witness ==
  /\ pc = "FAILED"
  /\ failedAt = "DISPATCH"
  /\ atStart.udid = "udid-1"
  /\ Cap("appium:udid") = "udid-1"
  /\ Count("clearSelectedDevice") = 1
  /\ selectedDevice = Undefined

\* validateIOSDeviceSelection has returned or thrown in this invocation.
Validated ==
  /\ args.platform = "ios"
  /\ \/ pc \in {"BUILD_IOS", "DISPATCH", "AWAIT_SESSION", "RESPOND", "DONE"}
     \/ pc = "FAILED" /\ failedAt \in {"BUILD_CAPS", "DISPATCH", "RESPOND"}

Rejected == pc = "FAILED" /\ failedAt = "BUILD_CAPS"

\* C6: iOS validation is skipped when the device type is absent; with
\* exactly one device of the type it never fails, selected device or not;
\* with two or more and no device selected it always fails, reporting the
\* exact device count, and the invocation creates no session.
C6_IOSValidation ==
  Validated =>
    /\ (~Local \/ ~Selected(atStart.type))
         => ~Has("getDevicesByType") /\ devices = -1 /\ ~Rejected
    /\ devices = 1 => ~Rejected
    /\ (devices >= 2 /\ ~Selected(atStart.udid))
         => /\ Rejected
            /\ result.status = "error"
            /\ result.cause.kind = "MultipleIOS"
            /\ result.cause.count = devices
            /\ ~Has("createSession") /\ ~Has("newSession") /\ ~Has("setSession")
            /\ registered = NoHandle
            /\ session.active => session = atStart.session

\* C6 witness: three simulators, none selected: the invocation failed
\* reporting three.
C6_Witness ==
  /\ Rejected
  /\ atStart.type = "simulator"
  /\ ~Selected(atStart.udid)
  /\ devices = 3
  /\ result.cause = [kind |-> "MultipleIOS", noun |-> "simulators", count |-> 3]

\* C7: a safeDeleteSession that fails is swallowed: the invocation goes on
\* to load the config, and the teardown failure is never its error.
C7_TeardownSwallowed ==
  teardownThrew =>
    /\ failedAt # "TEARDOWN_PRIOR"
    /\ result.cause.kind # "TeardownError"
    /\ pc = "LOAD_CONFIG" \/ Has("loadCapabilitiesConfig")

\* The step of 4.4 a collaborator call belongs to.
Step(e) ==
  CASE e = "safeDeleteSession" -> 1
    [] e = "loadCapabilitiesConfig" -> 2
    [] e \in {"getSelectedDeviceType", "getDevicesByType", "getSelectedDevice",
              "getSelectedDeviceInfo", "clearSelectedDevice"} -> 3
    [] e \in {"createSession", "newSession"} -> 4
    [] OTHER -> 5

Dispatched == Has("createSession") \/ Has("newSession")

\* C8: the steps of one invocation run in the order TEARDOWN_PRIOR (only
\* when a session is active), LOAD_CONFIG, BUILD_CAPS, DISPATCH, REGISTER:
\* the teardown is over before the config is loaded, and the config load,
\* the device-selection reads, the iOS validation and the clearing of the
\* selected device are over before createSession or newSession is invoked.
C8_StepOrder ==
  pc # "IDLE" =>
    /\ \A i, j \in DOMAIN events :
         i < j => \/ Step(events[i]) < Step(events[j])
                  \/ Step(events[i]) = 3 /\ Step(events[j]) = 3
    /\ pc = "TEARDOWN_PRIOR" => events = <<>> /\ atStart.session.active
    /\ pc # "TEARDOWN_PRIOR" => (Has("safeDeleteSession") <=> atStart.session.active)
    /\ pc \notin {"TEARDOWN_PRIOR", "LOAD_CONFIG"} => Has("loadCapabilitiesConfig")
    /\ Dispatched =>
         /\ Built
         /\ (Local /\ Selected(atStart.udid)) => Has("clearSelectedDevice")
         /\ (Local /\ args.platform = "ios") => Has("getSelectedDeviceType")
    /\ pc \in {"RESPOND", "DONE"} => Has("setSession")

\* C8 witness: an invocation that tore down a prior session, validated an
\* iOS device list, cleared the selected device, dispatched and registered.
C8_Witness ==
  /\ pc = "DONE"
  /\ atStart.session.active
  /\ Has("getDevicesByType")
  /\ Has("clearSelectedDevice")
  /\ Has("createSession")

\* The errors a step raises.
Raises(step) ==
  CASE step = "LOAD_CONFIG" -> {"TypeError"}
    [] step = "BUILD_CAPS" -> {"MultipleIOS", "DeviceManagerError"}
    [] OTHER -> {"InvalidURL", "UnsupportedPlatform", "RemoteSessionError", "DriverError"}

\* C9: an invocation in which LOAD_CONFIG, BUILD_CAPS or DISPATCH raises an
\* error ends with one reported failure carrying that error and never calls
\* setSession; setSession is called at most once, right after the dispatch
\* path that ran returned a session id, and with that path's driver or client.
C9_FailureRegistersNothing ==
  /\ (pc = "FAILED" /\ failedAt \in {"LOAD_CONFIG", "BUILD_CAPS", "DISPATCH"})
       => /\ result.status = "error"
          /\ result.prefix = "Failed to create session: "
          /\ result.cause.kind \in Raises(failedAt)
          /\ ~Has("setSession")
          /\ registered = NoHandle
          /\ sessionId = Undefined
  /\ Count("setSession") <= 1
  /\ Count("createSession") + Count("newSession") <= 1
  /\ Has("setSession") =>
       /\ \E i \in DOMAIN events :
            /\ events[i] \in {"createSession", "newSession"}
            /\ events[i + 1] = "setSession"
       /\ Has("newSession") <=> ~Local
       /\ sessionId \in SessionIds
       /\ registered.id = sessionId
       /\ registered.handle =
            (IF Has("newSession") THEN "WebDriverClient"
             ELSE IF args.platform = "android" THEN "AndroidUiautomator2Driver"
             ELSE "XCUITestDriver")
       /\ session = [active |-> TRUE, id |-> sessionId]
  /\ ~Has("setSession") => registered = NoHandle

\* C9 witness: the embedded driver's createSession threw, and nothing was
\* registered.
C9_Witness ==
  /\ pc = "FAILED"
  /\ failedAt = "DISPATCH"
  /\ result.cause.kind = "DriverError"
  /\ Has("createSession")
  /\ ~Has("setSession")

\* C10: whatever reading the config file comes to, the invocation never
\* fails because of it, and when no mappings could be read the build
\* proceeds with an empty config contribution.
C10_ConfigNeverFatal ==
  /\ failedAt # "LOAD_CONFIG"
  /\ configKind \in {"unset", "missing", "unreadable", "unparseable", "null",
                     "no mappings"}
       => pc # "FAILED" /\ Config = EmptyCaps

\* C11: no key of the final capability set has the empty string for its
\* value, whatever the platform, the config-file and custom capabilities,
\* the remote flag and the device selection (blank identifier, name or
\* platform included).
C11_NoEmptyValues ==
  Built => \A k \in DOMAIN finalCapabilities : finalCapabilities[k] # ""

\* C11 witness: a build on a local target with a blank selected identifier,
\* name and platform and an empty-string custom capability, whose key the
\* result lacks.
C11_Witness ==
  /\ BuildReturned
  /\ Local
  /\ atStart.udid = ""
  /\ atStart.info = Info("", "")
  /\ \E k \in DOMAIN Custom : Custom[k] = "" /\ k \notin DOMAIN finalCapabilities
  /\ "appium:udid" \notin DOMAIN finalCapabilities


\* C12: when a session is active as the invocation begins, safeDeleteSession
\* is the first collaborator call, before the config is loaded, whatever
\* comes of the new session; so after an invocation that failed in
\* BUILD_CAPS or DISPATCH, with a teardown that succeeded, the store holds
\* neither the prior session nor a new one.
C12_PriorSessionNotPreserved ==
  /\ (atStart.session.active /\ pc \notin {"IDLE", "TEARDOWN_PRIOR"})
       => /\ events # <<>>
          /\ events[1] = "safeDeleteSession"
          /\ \A i \in DOMAIN events :
               events[i] = "loadCapabilitiesConfig" => i > 1
  /\ (pc = "FAILED" /\ failedAt \in {"BUILD_CAPS", "DISPATCH"}
      /\ atStart.session.active /\ ~teardownThrew)
       => /\ session = NoSession
          /\ registered = NoHandle

\* C12 witness: a session was active, its teardown succeeded, the embedded
\* driver's createSession threw: the store is empty.
C12_Witness ==
  /\ pc = "FAILED"
  /\ failedAt = "DISPATCH"
  /\ atStart.session.active
  /\ ~teardownThrew
  /\ Has("safeDeleteSession")
  /\ Has("createSession")
  /\ session = NoSession

====
